---- MODULE Spec2Model ----
(***************************************************************************)
(* loopback-swagger, lib/specgen/route-helper.js: the translation of       *)
(* strong-remoting routes into the `paths` section of a Swagger 2.0        *)
(* document, with the operation-id allocator.                              *)
(*                                                                         *)
(* JavaScript strings are TLA+ strings; a character of a string s is       *)
(* SubSeq(s, i, i).  JavaScript objects that are shared by reference (the  *)
(* operation objects, held both by `paths` and by the operationIdRegistry  *)
(* entries) live in `heap` and are named by their index.                   *)
(***************************************************************************)
EXTENDS Integers, Sequences, FiniteSets, TLC

(***************************************************************************)
(* Bounds of the model.                                                    *)
(***************************************************************************)
\* The number of routes one generation run adds at most.
MaxRoutes == 4

(***************************************************************************)
(* JavaScript string primitives.                                           *)
(***************************************************************************)
CharAt(s, i) == IF i >= 1 /\ i <= Len(s) THEN SubSeq(s, i, i) ELSE ""

\* String.prototype.indexOf, 1-based; 0 stands for JavaScript's -1.
IndexOf(s, pat) ==
  LET hits == {i \in 1..(Len(s) - Len(pat) + 1) : SubSeq(s, i, i + Len(pat) - 1) = pat}
  IN IF hits = {} THEN 0 ELSE CHOOSE i \in hits : \A j \in hits : i <= j

\* String.prototype.replace with a string pattern: the first occurrence only.
ReplaceFirst(s, pat, rep) ==
  LET i == IndexOf(s, pat)
  IN IF i = 0 THEN s
     ELSE SubSeq(s, 1, i - 1) \o rep \o SubSeq(s, i + Len(pat), Len(s))

\* String.prototype.split on a one-character separator.
RECURSIVE Split(_, _)
Split(s, sep) ==
  LET i == IndexOf(s, sep)
  IN IF i = 0 THEN <<s>>
     ELSE <<SubSeq(s, 1, i - 1)>> \o Split(SubSeq(s, i + 1, Len(s)), sep)

\* Array.prototype.join.
RECURSIVE Join(_, _)
Join(parts, sep) ==
  IF Len(parts) = 0 THEN ""
  ELSE IF Len(parts) = 1 THEN parts[1]
  ELSE parts[1] \o sep \o Join(Tail(parts), sep)

\* s.replace(/[chars]+/g, rep): every maximal run of characters of `chars`
\* becomes one `rep`.
RECURSIVE ReplaceRuns(_, _, _)
ReplaceRuns(s, chars, rep) ==
  IF Len(s) = 0 THEN ""
  ELSE IF CharAt(s, 1) \in chars
       THEN LET rest == ReplaceRuns(Tail(s), chars, rep)
            IN IF Len(s) >= 2 /\ CharAt(s, 2) \in chars THEN rest ELSE rep \o rest
       ELSE CharAt(s, 1) \o ReplaceRuns(Tail(s), chars, rep)

\* String.prototype.toLowerCase on the letters HTTP verbs are written with.
LowerChar(c) ==
  CASE c = "A" -> "a" [] c = "D" -> "d" [] c = "E" -> "e" [] c = "G" -> "g"
    [] c = "L" -> "l" [] c = "O" -> "o" [] c = "P" -> "p" [] c = "S" -> "s"
    [] c = "T" -> "t" [] c = "U" -> "u" [] c = "H" -> "h" [] c = "C" -> "c"
    [] OTHER -> c

RECURSIVE ToLowerCase(_)
ToLowerCase(s) ==
  IF Len(s) = 0 THEN "" ELSE LowerChar(CharAt(s, 1)) \o ToLowerCase(Tail(s))

Range(f) == {f[i] : i \in DOMAIN f}

(***************************************************************************)
(* convertPathFragments, convertVerb.                                      *)
(***************************************************************************)
ConvertFragment(fragment) ==
  IF CharAt(fragment, 1) = ":"
  THEN "{" \o SubSeq(fragment, 2, Len(fragment)) \o "}"
  ELSE fragment

convertPathFragments(path) ==
  LET frags == Split(path, "/")
  IN Join([i \in 1..Len(frags) |-> ConvertFragment(frags[i])], "/")

\* convertVerb without the aliases.
convertVerb_NoAlias(verb) == ToLowerCase(verb)

convertVerb(verb) ==
  IF ToLowerCase(verb) = "all" THEN "post"
  ELSE IF ToLowerCase(verb) = "del" THEN "delete"
  ELSE ToLowerCase(verb)

(***************************************************************************)
(* The operation-id allocator.  A registry is a function from the ids that *)
(* are keys of the JavaScript object to Null or an entry                   *)
(* [path, method, operation], operation being a heap index.                *)
(***************************************************************************)
Null == [kind |-> "null"]

createLongOperationId(baseId, verb, path) == baseId \o "__" \o verb

PathSuffix(path) == ReplaceRuns(path, {"/", ":"}, "_")

\* generateUniqueId without lines 435-439: the long id whatever the registry
\* holds.
generateUniqueId_LongOnly(id, baseId, verb, path, registry) ==
  [id |-> createLongOperationId(baseId, verb, path), warn |-> FALSE]

\* generateUniqueId: the id it returns and whether it calls g.warn.  Its
\* first parameter is overwritten before it is read.
generateUniqueId(id, baseId, verb, path, registry) ==
  LET long == createLongOperationId(baseId, verb, path)
      full == long \o "_" \o PathSuffix(path)
  IN IF long \in DOMAIN registry
     THEN [id |-> full, warn |-> full \in DOMAIN registry]
     ELSE [id |-> long, warn |-> FALSE]

(***************************************************************************)
(* Type descriptors.  A LoopBack type is a name ('string', 'Product') or a *)
(* JavaScript array holding one type (['Product']).                        *)
(***************************************************************************)
Name(n) == [kind |-> "name", name |-> n]
Arr(t) == [kind |-> "array", item |-> t]

IsArray(t) == t.kind = "array"

\* String(type): an array of one element prints as its element does.
RECURSIVE TypeString(_)
TypeString(t) == IF IsArray(t) THEN TypeString(t.item) ELSE t.name

(***************************************************************************)
(* Schema fragments.                                                       *)
(***************************************************************************)
Undefined == [kind |-> "undefined"]
NullSchema == [kind |-> "null"]
Prim(type, format) == [kind |-> "prim", type |-> type, format |-> format]
GenericObject == Prim("object", "")
FileSchema == [kind |-> "file"]
Ref(ref) == [kind |-> "ref", ref |-> ref]
ArrayOf(items) == [kind |-> "array", items |-> items]
ObjectSchema(properties, required) ==
  [kind |-> "object", properties |-> properties, required |-> required]

\* schema.type as JavaScript reads it ("" stands for undefined).
SchemaType(s) ==
  CASE s.kind = "prim" -> s.type
    [] s.kind = "array" -> "array"
    [] s.kind = "object" -> "object"
    [] s.kind = "file" -> "file"
    [] OTHER -> ""

\* Every $ref string of a schema fragment.
RECURSIVE SchemaRefs(_)
SchemaRefs(s) ==
  CASE s.kind = "ref" -> {s.ref}
    [] s.kind = "array" -> SchemaRefs(s.items)
    [] s.kind = "object" ->
         UNION {SchemaRefs(s.properties[p]) : p \in DOMAIN s.properties}
    [] OTHER -> {}

(***************************************************************************)
(* The host application: its models and what the generation options make   *)
(* of them.  An application is a record                                    *)
(*   models    the names the model registry knows                          *)
(*   public    the models exposed over REST                                *)
(*   deps      model -> models named by its properties and relations       *)
(*   relations model -> targets of its relations not marked disableInclude *)
(*   newable   models with a generated id and forceId not false            *)
(*   acls      model -> the access rules handed over with its routes       *)
(***************************************************************************)
WithRelations(m) == m \o "WithRelations"
NewVariant(m) == "$new_" \o m

\* The names the type registry holds a definition for.
Defined(app, opts) ==
  app.models
    \cup (IF opts.generateRelationProperties
          THEN {WithRelations(m) : m \in app.models} ELSE {})
    \cup (IF opts.generateOperationScopedModels
          THEN {NewVariant(m) : m \in app.newable} ELSE {})

\* The names the definition of `n` refers to.
DefinitionDeps(app, n) ==
  IF n \in app.models THEN app.deps[n]
  ELSE IF \E m \in app.models : n = WithRelations(m)
  THEN LET m == CHOOSE b \in app.models : n = WithRelations(b)
       IN app.deps[m] \cup {WithRelations(r) : r \in app.relations[m]}
  ELSE IF \E m \in app.models : n = NewVariant(m)
  THEN app.deps[CHOOSE b \in app.models : n = NewVariant(b)]
  ELSE {}

(***************************************************************************)
(* Type registry and schema builder.  The registry state is the set of     *)
(* names referenced so far; a translation returns the fragment together    *)
(* with the registry it leaves.                                            *)
(***************************************************************************)
PrimitiveTypes == {"string", "number", "boolean", "date", "buffer", "object", "file"}

isPrimitiveType(typeName) == typeName \in PrimitiveTypes

isDefined(typeName, known) == typeName \in known

\* typeRegistry.reference(name)
reference(name, reg) ==
  [ref |-> "#/definitions/" \o name, reg |-> reg \cup {name}]

PrimitiveSchema(typeName) ==
  CASE typeName = "date" -> Prim("string", "date-time")
    [] typeName = "buffer" -> Prim("string", "byte")
    [] typeName = "file" -> FileSchema
    [] typeName = "any" -> GenericObject
    [] OTHER -> Prim(typeName, "")

\* schemaBuilder.getLdlTypeName: the name of a named type, an array of the
\* item's name for an array.
RECURSIVE getLdlTypeName(_)
getLdlTypeName(t) ==
  IF IsArray(t) THEN Arr(getLdlTypeName(t.item)) ELSE Name(t.name)

\* The translation of a type: primitive, array, reference to a known model,
\* or the generic object for a name the registry does not know.
RECURSIVE BuildType(_, _, _)
BuildType(t, reg, known) ==
  IF IsArray(t)
  THEN LET r == BuildType(t.item, reg, known)
       IN [schema |-> ArrayOf(r.schema), reg |-> r.reg]
  ELSE IF isPrimitiveType(t.name) \/ t.name = "any"
  THEN [schema |-> PrimitiveSchema(t.name), reg |-> reg]
  ELSE IF isDefined(t.name, known)
  THEN LET r == reference(t.name, reg)
       IN [schema |-> Ref(r.ref), reg |-> r.reg]
  ELSE [schema |-> GenericObject, reg |-> reg]

\* schemaBuilder.buildFromLoopBackType on an accepts/returns descriptor.  With
\* operation-scoped models requested, the data argument of a create method
\* (createOnlyInstance) of a model with a generated id refers to the
\* $new_ variant.
buildFromLoopBackType(def, reg, known, opts) ==
  IF /\ opts.generateOperationScopedModels
     /\ def.createOnlyInstance
     /\ def.model # ""
     /\ isDefined(NewVariant(def.model), known)
  THEN LET r == reference(NewVariant(def.model), reg)
       IN [schema |-> Ref(r.ref), reg |-> r.reg]
  ELSE BuildType(def.type, reg, known)

(***************************************************************************)
(* Route descriptors (strong-remoting).  `returns` and `accepts` are       *)
(* sequences, empty when the route declares none; "" and 0 stand for an    *)
(* absent string or number.                                                *)
(***************************************************************************)
Ret(arg, type, root) ==
  [arg |-> arg, name |-> "", type |-> type, root |-> root, model |-> "",
   required |-> FALSE, target |-> ""]

Acc(arg, type, source) ==
  [arg |-> arg, name |-> "", type |-> type, model |-> "",
   createOnlyInstance |-> FALSE, source |-> source, httpFn |-> FALSE,
   documented |-> TRUE, required |-> FALSE, description |-> ""]

Err(code, message, responseModel) ==
  [code |-> code, message |-> message, responseModel |-> responseModel]

Route(cls, method, verb, path, accepts, returns, errors) ==
  [cls |-> cls, method |-> method, verb |-> verb, path |-> path,
   accepts |-> accepts, returns |-> returns, errors |-> errors,
   status |-> 0, errorStatus |-> 0]

EmptyMap == [x \in {} |-> Null]

Put(f, k, v) == [x \in DOMAIN f \cup {k} |-> IF x = k THEN v ELSE f[x]]

(***************************************************************************)
(* convertReturnsToSwagger.  Every step is an operator that takes what the *)
(* earlier steps computed, in the order of the source's statements.        *)
(***************************************************************************)
\* route.method.match(/\.(find|findOne|findById|__(get|findById)__*)/): the
\* pattern is not anchored, and `__*` is one underscore followed by any
\* number of underscores.
MatchesRetrieval(method) ==
  \/ IndexOf(method, ".find") # 0
  \/ IndexOf(method, ".__get_") # 0
  \/ IndexOf(method, ".__findById_") # 0

\* Lines 108-111: the type written back to route.returns[0].type.
NewType(type, typeString) ==
  IF isPrimitiveType(typeString) \/ typeString = "any"
  THEN type
  ELSE Name(typeString \o "WithRelations")

RelationType(type) ==
  IF IsArray(type)
  THEN Arr(NewType(type, TypeString(type)))
  ELSE NewType(type, TypeString(type))

\* Lines 104-105.
RewritesReturns(route, opts) ==
  opts.generateRelationProperties /\ MatchesRetrieval(route.method)

\* Lines 106-112: the route as the assignment leaves it.
RewriteReturns(route) == [route EXCEPT !.returns[1].type = RelationType(@)]

PropName(d) == IF d.name # "" THEN d.name ELSE d.arg

\* Lines 150-154 without the loop: one array level at most.
GenericIdlType_OneLevel(idlType) ==
  IF IsArray(idlType) THEN ArrayOf(GenericObject) ELSE GenericObject

\* Lines 149-154: the innermost item type and the generic fragment of the
\* same array depth.
RECURSIVE ItemIdlType(_)
ItemIdlType(idlType) ==
  IF IsArray(idlType) THEN ItemIdlType(getLdlTypeName(idlType.item)) ELSE idlType

RECURSIVE GenericIdlType(_)
GenericIdlType(idlType) ==
  IF IsArray(idlType)
  THEN ArrayOf(GenericIdlType(getLdlTypeName(idlType.item)))
  ELSE GenericObject

\* Lines 155-167: the property of one output.
PropertySchema(ret, itemIdlType, reg, known) ==
  IF isPrimitiveType(itemIdlType.name) \/ isDefined(itemIdlType.name, known)
  THEN BuildType(ret, reg, known)
  ELSE [schema |-> GenericIdlType(getLdlTypeName(ret)), reg |-> reg]

\* Lines 142-173: one turn of the forEach.
ReturnProperty(acc, propName, required, built) ==
  [properties |-> Put(acc.properties, propName, built.schema),
   required |-> IF required THEN Append(acc.required, propName) ELSE acc.required,
   reg |-> built.reg]

RECURSIVE ReturnProperties(_, _, _)
ReturnProperties(rets, acc, known) ==
  IF Len(rets) = 0 THEN acc
  ELSE ReturnProperties(
         Tail(rets),
         ReturnProperty(acc, PropName(Head(rets)), Head(rets).required,
                        PropertySchema(Head(rets).type,
                                       ItemIdlType(getLdlTypeName(Head(rets).type)),
                                       acc.reg, known)),
         known)

NotHeaderOrStatus(ret) == ret.target # "header" /\ ret.target # "status"

RefTo(r) == [schema |-> Ref(r.ref), reg |-> r.reg]

\* Lines 130-133.
\* Line 131 writing the $ref itself instead of asking the registry for it.
RootSchema_Unregistered(ret, reg, known) ==
  IF ret.model # ""
  THEN [schema |-> Ref("#/definitions/" \o ret.model), reg |-> reg]
  ELSE BuildType(ret.type, reg, known)

RootSchema(ret, reg, known) ==
  IF ret.model # ""
  THEN RefTo(reference(ret.model, reg))
  ELSE BuildType(ret.type, reg, known)

ObjectOf(acc) ==
  [schema |-> ObjectSchema(acc.properties, acc.required), reg |-> acc.reg]

\* Lines 116-176: `returns` is route.returns, `routeReturns` the same
\* without the header and status outputs.
ReturnsSchema(returns, routeReturns, reg, known) ==
  IF Len(returns) = 0 THEN [schema |-> Undefined, reg |-> reg]
  ELSE IF Len(routeReturns) = 1 /\ routeReturns[1].root
  THEN RootSchema(routeReturns[1], reg, known)
  ELSE IF Len(routeReturns) = 1 /\ routeReturns[1].type = Name("ReadableStream")
  THEN [schema |-> FileSchema, reg |-> reg]
  ELSE ObjectOf(ReturnProperties(routeReturns,
                  [properties |-> EmptyMap, required |-> <<>>, reg |-> reg],
                  known))

ReturnsResult(route, s) ==
  [failed |-> FALSE, route |-> route, schema |-> s.schema, reg |-> s.reg]

ReturnsOf(route, reg, known) ==
  ReturnsResult(route,
    ReturnsSchema(route.returns, SelectSeq(route.returns, NotHeaderOrStatus),
                  reg, known))

\* The result: failed (the TypeError of returns[0].type when the route has
\* no returns), the route as the call leaves it, the schema, the registry.
convertReturnsToSwagger(route, reg, known, opts) ==
  IF RewritesReturns(route, opts)
  THEN IF Len(route.returns) = 0
       THEN [failed |-> TRUE, route |-> route, schema |-> Undefined, reg |-> reg]
       ELSE ReturnsOf(RewriteReturns(route), reg, known)
  ELSE ReturnsOf(route, reg, known)

(***************************************************************************)
(* acceptToParameter, convertAcceptsToSwagger.                             *)
(***************************************************************************)
\* classDef.sharedCtor.accepts: the id argument of the instance methods.
SharedCtorAccepts(cls) ==
  <<[Acc("id", Name("any"), "path") EXCEPT
       !.required = TRUE, !.description = cls \o " id"]>>

EndsWith(s, suffix) ==
  Len(s) >= Len(suffix) /\ SubSeq(s, Len(s) - Len(suffix) + 1, Len(s)) = suffix

\* A parameter object; Undefined, "" and FALSE stand for an absent field.
ParamObject(name, in, description, required) ==
  [name |-> name, in |-> in, description |-> description, required |-> required,
   schema |-> Undefined, type |-> "", format |-> "", items |-> Undefined,
   isFile |-> FALSE]

\* Lines 372-392: a parameter that is neither a body nor a file.
InlineParameter(paramObject, schema) ==
  IF SchemaType(schema) = "object" \/ schema.kind = "ref"
  THEN [paramObject EXCEPT !.type = SchemaType(schema), !.format = "JSON"]
  ELSE IF SchemaType(schema) = "array"
  THEN [paramObject EXCEPT !.type = "array", !.items = schema.items]
  ELSE IF schema.kind = "prim"
  THEN [paramObject EXCEPT !.type = schema.type, !.format = schema.format]
  ELSE paramObject

\* Lines 359-361.
DataDescription(paramObject) ==
  IF paramObject.description = "Model instance data"
  THEN [paramObject EXCEPT
          !.description = "An object of model property name/value pairs"]
  ELSE paramObject

WithSchema(paramObject, schema, reg) ==
  [param |-> [paramObject EXCEPT !.schema = schema], reg |-> reg]

WithReference(paramObject, r) == WithSchema(paramObject, Ref(r.ref), r.reg)

\* Lines 350-365 keeping the reference the builder returned for `data`.
BodyParameter_ClassOnly(paramObject, schema, cls, reg) ==
  IF paramObject.name = "data"
  THEN WithReference(DataDescription(paramObject), reference(cls, reg))
  ELSE WithSchema(paramObject, schema, reg)

\* Lines 350-365: a parameter whose location is the body.
BodyParameter(paramObject, schema, cls, reg) ==
  IF paramObject.name = "data"
  THEN IF SchemaType(schema) = "object"
       THEN WithReference(DataDescription(paramObject), reference(cls, reg))
       ELSE WithSchema(DataDescription(paramObject), schema, reg)
  ELSE WithSchema(paramObject, schema, reg)

\* Lines 366-370.
FileParameter(paramObject) ==
  [paramObject EXCEPT !.type = "file", !.in = "formData", !.isFile = TRUE,
                      !.description = "File to upload"]

\* Lines 394-398: the id of an instance method is documented as a string.
IdParameter(p) ==
  IF /\ p.description # "" /\ EndsWith(p.description, " id")
     /\ p.name = "id" /\ p.in = "path" /\ p.type = "object" /\ p.format = "JSON"
  THEN [p EXCEPT !.format = "", !.type = "string"]
  ELSE p

Checked(b) == [param |-> IdParameter(b.param), reg |-> b.reg]

\* Lines 349-400: the parameter of a located input and its schema.
Parameter(paramObject, built, cls) ==
  IF paramObject.in = "body"
  THEN Checked(BodyParameter(paramObject, built.schema, cls, built.reg))
  ELSE IF SchemaType(built.schema) = "file"
  THEN Checked([param |-> FileParameter(paramObject), reg |-> built.reg])
  ELSE Checked([param |-> InlineParameter(paramObject, built.schema),
                reg |-> built.reg])

\* Lines 319-322.
ParamName(accepts) ==
  IF PropName(accepts) = "options" THEN "optionsData" ELSE PropName(accepts)

\* Lines 315-335: the location of the input called `name`.
ParamType(route, accepts, name) ==
  IF accepts.source # ""
  THEN (IF accepts.source = "form" THEN "formData" ELSE accepts.source)
  ELSE IF IndexOf(route.path, ":" \o name) # 0
  THEN "path"
  ELSE IF ToLowerCase(route.verb) = "get" THEN "query" ELSE "formData"

\* Lines 341-347.
Located(accepts, name, paramType) ==
  ParamObject(name, paramType, accepts.description,
              IF paramType = "path" THEN TRUE ELSE accepts.required)

\* The function acceptToParameter(route, classDef, typeRegistry, opts)
\* returns, applied to one accepts descriptor.
acceptToParameter(route, accepts, reg, known, opts) ==
  Parameter(Located(accepts, ParamName(accepts),
                    ParamType(route, accepts, ParamName(accepts))),
            buildFromLoopBackType(accepts, reg, known, opts),
            route.cls)

\* Lines 73-88: the inputs that are documented.
IsDocumented(arg) ==
  /\ arg.documented
  /\ ~arg.httpFn
  /\ arg.source \notin {"req", "res", "context"}

Collected(acc, r) == [params |-> Append(acc.params, r.param), reg |-> r.reg]

\* Lines 91-93: accepts.map(acceptToParameter(...)), the registry threaded
\* through the calls.
RECURSIVE MapAccepts(_, _, _, _, _)
MapAccepts(route, accepts, acc, known, opts) ==
  IF Len(accepts) = 0 THEN acc
  ELSE MapAccepts(route, Tail(accepts),
         Collected(acc, acceptToParameter(route, Head(accepts), acc.reg, known, opts)),
         known, opts)

\* Lines 63-69 with the operands of the concatenation exchanged.
AllAccepts_OwnFirst(route) ==
  IF Len(Split(route.method, ".")) > 2
  THEN route.accepts \o SharedCtorAccepts(route.cls)
  ELSE route.accepts

\* Lines 63-69.
AllAccepts(route) ==
  IF Len(Split(route.method, ".")) > 2
  THEN SharedCtorAccepts(route.cls) \o route.accepts
  ELSE route.accepts

convertAcceptsToSwagger(route, reg, known, opts) ==
  MapAccepts(route, SelectSeq(AllAccepts(route), IsDocumented),
             [params |-> <<>>, reg |-> reg], known, opts)

(***************************************************************************)
(* createUniqueOperationId.  It reads and writes the registry and renames  *)
(* the operation of the first claimant in place (in the heap).             *)
(***************************************************************************)
\* Lines 421-425, n being the result of the second generateUniqueId.
Renamed(baseId, g, oldEntry, n, registry, ops) ==
  [id |-> g.id,
   registry |-> Put(Put(registry, n.id, oldEntry), baseId, Null),
   heap |-> [ops EXCEPT ![oldEntry.operation].operationId = n.id],
   warn |-> g.warn \/ n.warn]

\* Lines 420-428 without the rename of the first claimant.
RenameFirst_Skipped(baseId, g, oldEntry, registry, ops) ==
  [id |-> g.id, registry |-> Put(registry, baseId, Null), heap |-> ops,
   warn |-> g.warn]

\* Lines 420-428, g being the result of the first generateUniqueId.
RenameFirst(baseId, g, oldEntry, registry, ops) ==
  IF oldEntry # Null
  THEN Renamed(baseId, g, oldEntry,
               generateUniqueId(oldEntry.method, baseId, oldEntry.method,
                                oldEntry.path, registry),
               registry, ops)
  ELSE [id |-> g.id, registry |-> registry, heap |-> ops, warn |-> g.warn]

createUniqueOperationId(methodName, verb, path, registry, ops) ==
  IF methodName \notin DOMAIN registry
  THEN [id |-> methodName, registry |-> registry, heap |-> ops, warn |-> FALSE]
  ELSE RenameFirst(methodName,
                   generateUniqueId(methodName, methodName, verb, path, registry),
                   registry[methodName], registry, ops)

(***************************************************************************)
(* routeToPathEntry.                                                       *)
(***************************************************************************)
Response(description, schema) == [description |-> description, schema |-> schema]

\* Lines 213-217 never building the schema of responseModel.
ErrorSchema_Ignored(msg, reg, known) == [schema |-> NullSchema, reg |-> reg]

\* Lines 213-217.
ErrorSchema(msg, reg, known) ==
  IF msg.responseModel # ""
  THEN BuildType(Name(msg.responseModel), reg, known)
  ELSE [schema |-> NullSchema, reg |-> reg]

\* Lines 218-222.
ErrorResponse(acc, msg, b) ==
  [responses |-> Put(acc.responses, msg.code, Response(msg.message, b.schema)),
   reg |-> b.reg]

\* Lines 209-224: one response per declared error, keyed by its code.
RECURSIVE ErrorResponses(_, _, _)
ErrorResponses(errors, acc, known) ==
  IF Len(errors) = 0 THEN acc
  ELSE ErrorResponses(Tail(errors),
         ErrorResponse(acc, Head(errors), ErrorSchema(Head(errors), acc.reg, known)),
         known)

\* Lines 191-195.
StatusCode(route) ==
  IF route.status # 0 THEN route.status
  ELSE IF Len(route.returns) > 0 THEN 200 ELSE 204

\* Lines 228-236.
WithErrorStatus(errorStatus, e) ==
  IF errorStatus # 0 /\ errorStatus \notin DOMAIN e.responses
  THEN [responses |-> Put(e.responses, errorStatus,
                          Response("Unknown error", Undefined)),
        reg |-> e.reg]
  ELSE e

\* Lines 197-236: responseMessages and the registry the error schemas leave.
ResponseMessages(route, schema, reg, known) ==
  WithErrorStatus(route.errorStatus,
    ErrorResponses(route.errors,
      [responses |-> Put(EmptyMap, StatusCode(route),
                         Response("Request was successful", schema)),
       reg |-> reg],
      known))

\* Line 253.
CandidateId(method) == ReplaceFirst(ReplaceFirst(method, ".prototype.", "_"), ".", "_")

FormConsumes == <<"application/x-www-form-urlencoded">>

\* Lines 277-282.
Consumes(params) ==
  IF \E i \in DOMAIN params : params[i].in = "formData" THEN FormConsumes ELSE <<>>

\* Lines 226-227: the last segment of the dotted method name.
MethodName(method) == Split(method, ".")[Len(Split(method, "."))]

\* An access rule of the model (acl.constructor.ALLOW is 'ALLOW').
Acl(permission, principalId, property) ==
  [permission |-> permission, principalId |-> principalId, property |-> property]

\* Line 271 without the test of the principal.
IsPublic_AnyPrincipal(acls, methodName) ==
  \/ Len(acls) = 0
  \/ /\ methodName # ""
     /\ \E i \in DOMAIN acls :
          /\ acls[i].permission = "ALLOW"
          /\ acls[i].property = methodName

\* Line 271.
IsPublic(acls, methodName) ==
  \/ Len(acls) = 0
  \/ /\ methodName # ""
     /\ \E i \in DOMAIN acls :
          /\ acls[i].permission = "ALLOW"
          /\ acls[i].principalId = "$everyone"
          /\ acls[i].property = methodName

\* Lines 272-276: the security field, <<>> when the operation has none.
Security(acls, methodName) ==
  IF IsPublic(acls, methodName) THEN <<>> ELSE <<"bearer">>

\* Lines 256-282.
Operation(cls, operationId, params, responses, security) ==
  [tags |-> <<cls>>, operationId |-> operationId, parameters |-> params,
   responses |-> responses, security |-> security, consumes |-> Consumes(params)]

\* Lines 256-286: the entry, its operation a new heap object, recorded in
\* the registry under the id the allocator chose.
Recorded(route, entry, operation, u, reg) ==
  [failed |-> FALSE, route |-> route, entry |-> entry,
   registry |-> Put(u.registry, u.id, entry),
   heap |-> Append(u.heap, operation),
   reg |-> reg, warn |-> u.warn]

NewEntry(route, params, m, path, verb, acls, u) ==
  Recorded(route,
           [path |-> path, method |-> verb, operation |-> Len(u.heap) + 1],
           Operation(route.cls, u.id, params, m.responses,
                     Security(acls, MethodName(route.method))),
           u, m.reg)

\* Lines 240-255.
Allocated(route, params, m, path, verb, acls, registry, ops) ==
  NewEntry(route, params, m, path, verb, acls,
           createUniqueOperationId(CandidateId(route.method), verb, path,
                                   registry, ops))

\* Lines 190-287, r being the result of convertReturnsToSwagger.
AfterReturns(a, r, registry, ops, known, acls) ==
  IF r.failed
  THEN [failed |-> TRUE, route |-> r.route, entry |-> Null,
        registry |-> registry, heap |-> ops, reg |-> a.reg, warn |-> FALSE]
  ELSE Allocated(r.route, a.params,
                 ResponseMessages(r.route, r.schema, r.reg, known),
                 convertPathFragments(r.route.path), convertVerb(r.route.verb),
                 acls, registry, ops)

\* Lines 188-190, a being the result of convertAcceptsToSwagger.
AfterAccepts(route, a, registry, ops, known, acls, opts) ==
  AfterReturns(a, convertReturnsToSwagger(route, a.reg, known, opts),
               registry, ops, known, acls)

\* The result: failed (the TypeError of convertReturnsToSwagger), the route
\* as the call leaves it, the entry, and the registries and heap the call
\* leaves.
routeToPathEntry(route, registry, ops, reg, known, acls, opts) ==
  AfterAccepts(route, convertAcceptsToSwagger(route, reg, known, opts),
               registry, ops, known, acls, opts)

(***************************************************************************)
(* The applications the generator is run on: the fixtures of the test      *)
(* suite (createLoopbackAppWithModel with its shared methods, the          *)
(* multipath method, createConversationAndMessageModelsWithRelations).     *)
(***************************************************************************)
NoDeps(models) == [m \in models |-> {}]

NoAcls(models) == [m \in models |-> <<>>]

DataArg(model, create) ==
  [Acc("data", Name("object"), "body") EXCEPT
     !.model = model, !.createOnlyInstance = create,
     !.description = "Model instance data"]

MultipathModels == {"Product"}

MultipathApp ==
  [models |-> MultipathModels, public |-> {"Product"},
   deps |-> NoDeps(MultipathModels), relations |-> NoDeps(MultipathModels),
   newable |-> {"Product"}, acls |-> NoAcls(MultipathModels),
   routes |-> <<
     Route("Product", "Product.multipath", "get", "/Products/multipath", <<>>, <<>>, <<>>),
     Route("Product", "Product.multipath", "post", "/Products/multipath", <<>>, <<>>, <<>>),
     Route("Product", "Product.multipath", "get", "/Products/multi/path", <<>>, <<>>, <<>>),
     Route("Product", "Product.multipath", "get", "/Products/multi:path", <<>>, <<>>, <<>>),
     Route("Product", "Product.other", "ALL", "/Products/multipath", <<>>, <<>>, <<>>)
   >>]

ProductModels ==
  {"Product", "Order", "Image", "Warehouse", "Address", "ValidationError",
   "Role", "RoleMapping"}

ProductApp ==
  [models |-> ProductModels, public |-> {"Product", "Order"},
   deps |-> [m \in ProductModels |->
               CASE m = "Warehouse" -> {"Address"}
                 [] m = "Role" -> {"RoleMapping"}
                 [] m = "RoleMapping" -> {"Role"}
                 [] OTHER -> {}],
   relations |-> NoDeps(ProductModels),
   newable |-> {"Product"}, acls |-> NoAcls(ProductModels),
   routes |-> <<
     Route("Product", "Product.create", "post", "/Products",
           <<DataArg("Product", TRUE)>>, <<Ret("data", Name("Product"), TRUE)>>, <<>>),
     Route("Product", "Product.patchOrCreate", "patch", "/Products",
           <<DataArg("Product", FALSE)>>, <<Ret("data", Name("Product"), TRUE)>>, <<>>),
     Route("Product", "Product.prototype.patchAttributes", "patch", "/Products/:id",
           <<DataArg("Product", FALSE)>>, <<Ret("data", Name("Product"), TRUE)>>, <<>>),
     Route("Product", "Product.setImage", "post", "/Products/setImage",
           <<Acc("image", Name("Image"), "")>>, <<>>,
           <<Err(422, "Validation failed", "ValidationError")>>),
     Route("Product", "Product.getWarehouse", "get", "/Products/warehouse",
           <<>>,
           <<[Ret("w", Name("object"), TRUE) EXCEPT !.model = "Warehouse"]>>, <<>>),
     Route("Product", "Product.stats", "get", "/Products/stats",
           <<>>,
           <<Ret("count", Name("number"), FALSE),
             Ret("things", Arr(Name("Thing")), FALSE)>>, <<>>),
     Route("Order", "Order.create", "post", "/Orders",
           <<DataArg("Order", TRUE)>>, <<Ret("data", Name("Order"), TRUE)>>, <<>>)
   >>]

RelationModels == {"User", "Conversation", "Message", "AccessToken"}

RelationApp ==
  [models |-> RelationModels, public |-> {"User", "Conversation", "Message"},
   deps |-> [m \in RelationModels |->
               CASE m = "User" -> {"Conversation", "AccessToken"}
                 [] m = "Conversation" -> {"Message", "User"}
                 [] m = "Message" -> {"Conversation"}
                 [] OTHER -> {}],
   relations |-> [m \in RelationModels |->
               CASE m = "User" -> {"Conversation"}
                 [] m = "Conversation" -> {"Message", "User"}
                 [] m = "Message" -> {"Conversation"}
                 [] OTHER -> {}],
   newable |-> {"User", "Conversation", "Message"},
   acls |-> NoAcls(RelationModels),
   routes |-> <<
     Route("User", "User.find", "get", "/Users",
           <<>>, <<Ret("data", Arr(Name("User")), TRUE)>>, <<>>),
     Route("User", "User.findById", "get", "/Users/:id",
           <<[Acc("id", Name("any"), "") EXCEPT !.required = TRUE,
                                                  !.description = "Model id"]>>,
           <<Ret("data", Name("User"), TRUE)>>, <<>>),
     Route("User", "User.create", "post", "/Users",
           <<DataArg("User", TRUE)>>, <<Ret("data", Name("User"), TRUE)>>, <<>>),
     Route("User", "User.prototype.__get__conversations", "get",
           "/Users/:id/conversations",
           <<>>, <<Ret("data", Arr(Name("Conversation")), TRUE)>>, <<>>),
     Route("User", "User.prototype.__updateById__conversations", "put",
           "/Users/:id/conversations/:fk",
           <<[Acc("fk", Name("any"), "path") EXCEPT !.required = TRUE]>>,
           <<Ret("result", Name("Conversation"), TRUE)>>, <<>>),
     Route("Message", "Message.findAndPurge", "post", "/Messages/purge",
           <<>>, <<>>, <<>>)
   >>]

\* A model with access rules and remote methods whose inputs take every
\* location: login, an instance method with two placeholders, an upload
\* and a delete.
AccountModels == {"Account"}

AccountApp ==
  [models |-> AccountModels, public |-> {"Account"},
   deps |-> NoDeps(AccountModels), relations |-> NoDeps(AccountModels),
   newable |-> {},
   acls |-> [m \in AccountModels |->
               <<Acl("DENY", "$everyone", "*"),
                 Acl("ALLOW", "$everyone", "login"),
                 Acl("ALLOW", "$authenticated", "verify"),
                 Acl("DENY", "$everyone", "login")>>],
   routes |-> <<
     Route("Account", "Account.login", "post", "/Accounts/login",
           <<Acc("credentials", Name("object"), "body"),
             [Acc("ttl", Name("number"), "") EXCEPT !.documented = FALSE],
             Acc("req", Name("object"), "req"),
             [Acc("next", Name("object"), "") EXCEPT !.httpFn = TRUE],
             Acc("include", Name("string"), "form"),
             Acc("options", Name("object"), "query")>>,
           <<Ret("token", Name("string"), TRUE)>>, <<>>),
     Route("Account", "Account.prototype.verify", "get",
           "/Accounts/:id/verify/:tokenId",
           <<Acc("token", Name("string"), ""),
             Acc("tokenId", Name("string"), ""),
             Acc("redirect", Name("string"), ""),
             Acc("res", Name("object"), "res")>>,
           <<>>, <<>>),
     Route("Account", "Account.prototype.setAvatar", "put",
           "/Accounts/:id/avatar/:kind",
           <<Acc("kind", Name("string"), ""),
             Acc("avatar", Name("file"), ""),
             Acc("backup", Name("file"), "body"),
             Acc("ctx", Name("object"), "context")>>,
           <<>>, <<>>),
     Route("Account", "Account.deleteById", "del", "/Accounts/:id",
           <<[Acc("id", Name("any"), "") EXCEPT !.required = TRUE,
                                                  !.description = "Model id"]>>,
           <<Ret("count", Name("number"), FALSE)>>, <<>>),
     Route("Account", "Account.findEmails", "get", "/Accounts/emails",
           <<>>, <<Ret("emails", Arr(Name("string")), TRUE)>>, <<>>)
   >>]

\* A model whose remote methods declare several outputs, an explicit
\* status and errors.
ReportModels == {"Report", "Failure"}

ReportApp ==
  [models |-> ReportModels, public |-> {"Report"},
   deps |-> NoDeps(ReportModels), relations |-> NoDeps(ReportModels),
   newable |-> {}, acls |-> NoAcls(ReportModels),
   routes |-> <<
     Route("Report", "Report.download", "get", "/Reports/:id/download",
           <<Acc("id", Name("string"), "")>>,
           <<Ret("body", Name("ReadableStream"), FALSE),
             [Ret("contentType", Name("string"), FALSE) EXCEPT !.target = "header"]>>,
           <<>>),
     Route("Report", "Report.summary", "get", "/Reports/summary",
           <<>>,
           <<Ret("report", Name("Report"), TRUE),
             [Ret("total", Name("number"), FALSE) EXCEPT !.required = TRUE]>>,
           <<Err(404, "No report", "")>>),
     [Route("Report", "Report.generate", "post", "/Reports/generate",
            <<>>,
            <<Ret("report", Name("Report"), TRUE),
              [Ret("code", Name("number"), FALSE) EXCEPT !.target = "status"]>>,
            <<Err(202, "Still running", "Failure"), Err(422, "Invalid", "Failure")>>)
        EXCEPT !.status = 202, !.errorStatus = 400],
     Route("Report", "Report.purge", "del", "/Reports",
           <<>>, <<>>, <<Err(404, "No report", "")>>),
     Route("Report", "Report.breakdown", "get", "/Reports/breakdown",
           <<>>,
           <<Ret("cells", Arr(Arr(Name("Cell"))), FALSE),
             Ret("owner", Name("Owner"), FALSE),
             Ret("labels", Arr(Name("string")), FALSE),
             Ret("failures", Arr(Name("Failure")), FALSE)>>,
           <<>>),
     Route("Report", "Report.findTitle", "get", "/Reports/title",
           <<>>, <<Ret("title", Name("string"), TRUE)>>, <<>>)
   >>]

AppNames == {"multipath", "products", "relations", "accounts", "reports"}

App(name) ==
  CASE name = "multipath" -> MultipathApp
    [] name = "products" -> ProductApp
    [] name = "relations" -> RelationApp
    [] name = "accounts" -> AccountApp
    [] name = "reports" -> ReportApp

Options == [generateRelationProperties : BOOLEAN, generateOperationScopedModels : BOOLEAN]

(***************************************************************************)
(* State.                                                                  *)
(***************************************************************************)
VARIABLES
  app,                  \* the application the document is generated for
  opts,                 \* the generation options
  routes,               \* the route descriptors of the application
  pc,                   \* "models", "routes", "done" or "failed"
  run,                  \* 1 for the first generation, 2 for the second
  added,                \* the routes added in this run, in order
  order,                \* the routes the first run added
  firstDoc,             \* the paths document of the first run
  heap,                 \* the operation objects created in this run
  paths,                \* path -> verb -> operation (a heap index)
  operationIdRegistry,  \* id -> Null or entry
  typeRegistry,         \* the names referenced so far
  definitions,          \* the keys of `definitions`, once the run is done
  warned,               \* g.warn was called in this run
  writes                \* <<path, verb>> -> number of assignments at line 52

vars ==
  <<app, opts, routes, pc, run, added, order, firstDoc, heap, paths,
    operationIdRegistry, typeRegistry, definitions, warned, writes>>

Known == Defined(App(app), opts)

\* The paths document as a value: every operation index replaced by the
\* object it names.
Document(p, h) == [x \in DOMAIN p |-> [v \in DOMAIN p[x] |-> h[p[x][v]]]]

Doc == Document(paths, heap)

\* The (path, verb) slots of paths.
Slots == UNION {{<<p, v>> : v \in DOMAIN paths[p]} : p \in DOMAIN paths}

OpAt(slot) == heap[paths[slot[1]][slot[2]]]

Init ==
  /\ app \in AppNames
  /\ opts \in Options
  /\ routes = App(app).routes
  /\ run = 1
  /\ order = <<>>
  /\ firstDoc = EmptyMap
  /\ pc = "models"
  /\ added = <<>>
  /\ heap = <<>>
  /\ paths = EmptyMap
  /\ operationIdRegistry = EmptyMap
  /\ typeRegistry = {}
  /\ definitions = {}
  /\ warned = FALSE
  /\ writes = EmptyMap

(***************************************************************************)
(* The document assembler: the public models are registered, the routes    *)
(* are translated, the definitions are collected.                          *)
(***************************************************************************)
RegisterModels ==
  /\ pc = "models"
  /\ pc' = "routes"
  /\ typeRegistry' = typeRegistry \cup App(app).public
  /\ UNCHANGED <<app, opts, routes, run, added, order, firstDoc, heap, paths,
                 operationIdRegistry, definitions, warned, writes>>

\* Lines 49-52 without the test of line 49: the path entry is always new.
Assigned_AlwaysNew(p, entryToAdd) ==
  Put(p, entryToAdd.path, Put(EmptyMap, entryToAdd.method, entryToAdd.operation))

\* Lines 49-52, t being the result of routeToPathEntry.
Assigned(p, entryToAdd) ==
  Put(p, entryToAdd.path,
      Put(IF entryToAdd.path \in DOMAIN p THEN p[entryToAdd.path] ELSE EmptyMap,
          entryToAdd.method, entryToAdd.operation))

Counted(w, slot) == Put(w, slot, IF slot \in DOMAIN w THEN w[slot] + 1 ELSE 1)

Added(r, t) ==
  /\ routes' = [routes EXCEPT ![r] = t.route]
  /\ typeRegistry' = t.reg
  /\ IF t.failed
     THEN /\ pc' = "failed"
          /\ UNCHANGED <<added, heap, paths, operationIdRegistry, warned, writes>>
     ELSE /\ pc' = pc
          /\ added' = Append(added, r)
          /\ heap' = t.heap
          /\ operationIdRegistry' = t.registry
          /\ warned' = (warned \/ t.warn)
          /\ paths' = Assigned(paths, t.entry)
          /\ writes' = Counted(writes, <<t.entry.path, t.entry.method>>)

\* addRouteToSwaggerPaths(route, classDef, typeRegistry, operationIdRegistry,
\* paths, acls, opts) for the route r of the application.
addRouteToSwaggerPaths(r) ==
  Added(r, routeToPathEntry(routes[r], operationIdRegistry, heap, typeRegistry,
                            Known, App(app).acls[routes[r].cls], opts))

AddRoute(r) ==
  /\ pc = "routes"
  /\ r \notin Range(added)
  /\ Len(added) < MaxRoutes
  /\ run = 2 => Len(added) < Len(order) /\ r = order[Len(added) + 1]
  /\ addRouteToSwaggerPaths(r)
  /\ UNCHANGED <<app, opts, run, order, firstDoc, definitions>>

\* typeRegistry.getDefinitions(): the referenced names the registry holds a
\* definition for, with everything their definitions refer to.
RECURSIVE getDefinitions(_, _, _)
getDefinitions(names, application, known) ==
  LET next == names \cup
                UNION {DefinitionDeps(application, n) \cap known : n \in names}
  IN IF next = names THEN names ELSE getDefinitions(next, application, known)

Finish ==
  /\ pc = "routes"
  /\ run = 2 => added = order
  /\ pc' = "done"
  /\ definitions' = getDefinitions(typeRegistry \cap Known, App(app), Known)
  /\ UNCHANGED <<app, opts, routes, run, added, order, firstDoc, heap, paths,
                 operationIdRegistry, typeRegistry, warned, writes>>

\* The generator is called again on the same application and options; the
\* registries and the document are new objects, the route descriptors are
\* the application's.
StartSecondRun ==
  /\ pc = "done"
  /\ run = 1
  /\ run' = 2
  /\ order' = added
  /\ firstDoc' = Doc
  /\ pc' = "models"
  /\ added' = <<>>
  /\ heap' = <<>>
  /\ paths' = EmptyMap
  /\ operationIdRegistry' = EmptyMap
  /\ typeRegistry' = {}
  /\ definitions' = {}
  /\ warned' = FALSE
  /\ writes' = EmptyMap
  /\ UNCHANGED <<app, opts, routes>>

Next ==
  \/ RegisterModels
  \/ \E r \in DOMAIN routes : AddRoute(r)
  \/ Finish
  \/ StartSecondRun

Spec == Init /\ [][Next]_vars

(***************************************************************************)
(* What the properties below speak of.                                     *)
(***************************************************************************)
\* The route added k-th in this run as the application declares it; its
\* operation is the k-th object of the heap.
Declared(k) == App(app).routes[added[k]]

Candidate(k) == CandidateId(Declared(k).method)
VerbOf(k) == convertVerb(Declared(k).verb)
PathOf(k) == convertPathFragments(Declared(k).path)

LongForm(k) == Candidate(k) \o "__" \o VerbOf(k)
FullForm(k) == LongForm(k) \o "_" \o PathSuffix(PathOf(k))

(***************************************************************************)
(* C1: any two operations stored under distinct (path, verb) slots of      *)
(* paths have different operationIds, unless the warning was emitted in    *)
(* the run.                                                                *)
(***************************************************************************)
C1_UniqueOperationIds ==
  \/ warned
  \/ \A s1, s2 \in Slots : s1 # s2 => OpAt(s1).operationId # OpAt(s2).operationId

C3_Expected(C, v, p, keys) ==
  IF C \notin keys THEN C
  ELSE IF (C \o "__" \o v) \notin keys THEN C \o "__" \o v
  ELSE C \o "__" \o v \o "_" \o ReplaceRuns(p, {"/", ":"}, "_")

C3_AllocatedId ==
  [][(pc = "routes" /\ pc' = "routes" /\ Len(added') = Len(added) + 1) =>
       LET k == Len(added')
           C == CandidateId(routes[added'[k]].method)
           v == convertVerb(routes[added'[k]].verb)
           p == convertPathFragments(routes[added'[k]].path)
           keys == DOMAIN operationIdRegistry
       IN /\ heap'[k].operationId = C3_Expected(C, v, p, keys)
          /\ ({C, C \o "__" \o v, C3_Expected(C, v, p, keys)} \subseteq keys
                => warned')]_vars

\* A route was given the id with the path disambiguator, and a later one
\* found that id taken too.
C3_Witness ==
  /\ warned
  /\ \E k \in DOMAIN added : heap[k].operationId = FullForm(k)

(***************************************************************************)
(* C4: adding a route stores its operation under its path and lowercase    *)
(* verb and leaves every operation stored under another verb of that path  *)
(* (and under every other path) where it is.                               *)
(***************************************************************************)
C4_SharedPathKeepsVerbs ==
  [][(pc = "routes" /\ pc' = "routes" /\ Len(added') = Len(added) + 1) =>
       LET k == Len(added')
           v == convertVerb(routes[added'[k]].verb)
           p == convertPathFragments(routes[added'[k]].path)
       IN /\ v = ToLowerCase(v)
          /\ p \in DOMAIN paths'
          /\ v \in DOMAIN paths'[p]
          /\ paths'[p][v] = k
          /\ \A q \in DOMAIN paths : \A w \in DOMAIN paths[q] :
               <<q, w>> # <<p, v>> =>
                 /\ q \in DOMAIN paths'
                 /\ w \in DOMAIN paths'[q]
                 /\ paths'[q][w] = paths[q][w]]_vars

\* Two routes of one path under different verbs, the first under the verb
\* it was added with.
C4_Witness ==
  \E i, j \in DOMAIN added :
    /\ i < j
    /\ PathOf(i) = PathOf(j)
    /\ VerbOf(i) # VerbOf(j)
    /\ paths[PathOf(i)][VerbOf(i)] = i
    /\ paths[PathOf(j)][VerbOf(j)] = j

(***************************************************************************)
(* C5: a (path, verb) slot of paths is assigned at most once in a run.     *)
(***************************************************************************)
C5_SlotWrittenOnce == \A slot \in DOMAIN writes : writes[slot] <= 1

(***************************************************************************)
(* C6: a second generation over the same routes and options yields the     *)
(* paths document of the first.                                            *)
(***************************************************************************)
C6_SecondRunSameDocument == (run = 2 /\ pc = "done") => Doc = firstDoc

(***************************************************************************)
(* C7: every $ref of an operation (response schemas, parameters) names a   *)
(* model the type registry has registered for output, and the finished     *)
(* document has a definition for it.                                       *)
(***************************************************************************)
ParameterRefs(param) == SchemaRefs(param.schema) \cup SchemaRefs(param.items)

OperationRefs(op) ==
  UNION {SchemaRefs(op.responses[c].schema) : c \in DOMAIN op.responses}
    \cup UNION {ParameterRefs(op.parameters[i]) : i \in DOMAIN op.parameters}

DocumentRefs == UNION {OperationRefs(OpAt(s)) : s \in Slots}

RECURSIVE TypeNames(_)
TypeNames(t) == IF IsArray(t) THEN TypeNames(t.item) ELSE {t.name}

RouteTypes(route) ==
  UNION {TypeNames(route.accepts[i].type) \cup {route.accepts[i].model}
           : i \in DOMAIN route.accepts}
    \cup UNION {TypeNames(route.returns[i].type) \cup {route.returns[i].model}
                  : i \in DOMAIN route.returns}
    \cup {route.errors[i].responseModel : i \in DOMAIN route.errors}

RECURSIVE ReachableFrom(_, _)
ReachableFrom(models, steps) ==
  IF steps = 0 THEN models
  ELSE ReachableFrom(models \cup UNION {App(app).deps[m] : m \in models}, steps - 1)

ReachableModels ==
  ReachableFrom((App(app).public
                   \cup UNION {RouteTypes(Declared(k)) : k \in DOMAIN added})
                  \cap App(app).models,
                Cardinality(App(app).models))

C9_Model(k) ==
  IF /\ opts.generateOperationScopedModels
     /\ Declared(k).method = Declared(k).cls \o ".create"
     /\ Declared(k).cls \in App(app).newable
  THEN "$new_" \o Declared(k).cls
  ELSE Declared(k).cls

C9_CreateBodyIsNewVariant ==
  \A k \in DOMAIN added : \A i \in DOMAIN heap[k].parameters :
    (heap[k].parameters[i].name = "data" /\ heap[k].parameters[i].in = "body") =>
      heap[k].parameters[i].schema = Ref("#/definitions/" \o C9_Model(k))

C9_DataRef(k) == heap[k].parameters[Len(heap[k].parameters)].schema

\* One document with the create of Product on $new_Product, a patch of
\* Product on Product, and the create of Order (forceId false) on Order.
C9_Witness ==
  /\ opts.generateOperationScopedModels
  /\ \E c, u, o \in DOMAIN added :
       /\ Declared(c).method = "Product.create"
       /\ C9_DataRef(c) = Ref("#/definitions/$new_Product")
       /\ Declared(u).method = "Product.prototype.patchAttributes"
       /\ C9_DataRef(u) = Ref("#/definitions/Product")
       /\ Declared(o).method = "Order.create"
       /\ C9_DataRef(o) = Ref("#/definitions/Order")

(***************************************************************************)
(* C10: with generateRelationProperties the success response of a route    *)
(* that returns a model refers to <Model>WithRelations when the method is  *)
(* of the find*, __get__* or __findById__* family and to <Model>           *)
(* otherwise, as the schema itself or as the items of an array.            *)
(***************************************************************************)
C10_ShortName(method) == Split(method, ".")[Len(Split(method, "."))]

C10_Retrieval(method) ==
  \E prefix \in {"find", "__get__", "__findById__"} :
    /\ Len(C10_ShortName(method)) >= Len(prefix)
    /\ SubSeq(C10_ShortName(method), 1, Len(prefix)) = prefix

C10_ReturnsModel(route) ==
  /\ Len(route.returns) = 1
  /\ route.returns[1].root
  /\ route.returns[1].model = ""
  /\ TypeNames(route.returns[1].type) \subseteq App(app).models

C10_Ref(route) ==
  Ref("#/definitions/" \o TypeString(route.returns[1].type)
        \o (IF C10_Retrieval(route.method) THEN "WithRelations" ELSE ""))

C10_Schema(route) ==
  IF IsArray(route.returns[1].type) THEN ArrayOf(C10_Ref(route)) ELSE C10_Ref(route)

C10_RelationVariantOnRetrieval ==
  opts.generateRelationProperties =>
    \A k \in DOMAIN added :
      C10_ReturnsModel(Declared(k)) =>
        heap[k].responses[200].schema = C10_Schema(Declared(k))

(***************************************************************************)
(* The inputs a route documents, as the claims on parameters describe      *)
(* them: the inputs of the shared constructor for a method of more than    *)
(* two dotted segments, then the route's own, without those marked         *)
(* documented: false, with a function as http, or read from req, res or    *)
(* context.                                                                *)
(***************************************************************************)
DeclaredInputs(route) ==
  (IF Len(Split(route.method, ".")) > 2 THEN SharedCtorAccepts(route.cls) ELSE <<>>)
    \o route.accepts

Removed(input) ==
  \/ ~input.documented
  \/ input.httpFn
  \/ input.source \in {"req", "res", "context"}

RECURSIVE Kept(_)
Kept(inputs) ==
  IF Len(inputs) = 0 THEN <<>>
  ELSE IF Removed(Head(inputs)) THEN Kept(Tail(inputs))
  ELSE <<Head(inputs)>> \o Kept(Tail(inputs))

DocumentedInputs(k) == Kept(DeclaredInputs(Declared(k)))

InputName(input) ==
  IF PropName(input) = "options" THEN "optionsData" ELSE PropName(input)

\* The names between ':' and the end of a segment of the path template.
Placeholders(path) ==
  {SubSeq(seg, 2, Len(seg)) : seg \in {f \in Range(Split(path, "/")) : CharAt(f, 1) = ":"}}

(***************************************************************************)
(* C11: a parameter is located by the http.source of its input ('form'     *)
(* giving 'formData'), else in the path exactly when its name is a         *)
(* placeholder of the route's path, else in the query of a GET route and   *)
(* in formData of any other.                                               *)
(***************************************************************************)
C11_Location(route, input) ==
  IF input.source # ""
  THEN (IF input.source = "form" THEN "formData" ELSE input.source)
  ELSE IF InputName(input) \in Placeholders(route.path) THEN "path"
  ELSE IF ToLowerCase(route.verb) = "get" THEN "query"
  ELSE "formData"

C11_ParameterLocation ==
  \A k \in DOMAIN added :
    LET inputs == DocumentedInputs(k)
    IN \A i \in DOMAIN inputs :
         i \in DOMAIN heap[k].parameters =>
           heap[k].parameters[i].in = C11_Location(Declared(k), inputs[i])

(***************************************************************************)
(* C12: the parameters of an operation are its documented inputs, one      *)
(* each and in their order: those of the shared constructor first for an   *)
(* instance method, none removed but the undocumented and the injected     *)
(* ones; those of Product.prototype.patchAttributes are id and data.       *)
(***************************************************************************)
ParameterNames(k) == [i \in DOMAIN heap[k].parameters |-> heap[k].parameters[i].name]

C12_ParameterOrder ==
  \A k \in DOMAIN added :
    LET inputs == DocumentedInputs(k)
    IN /\ ParameterNames(k) = [i \in DOMAIN inputs |-> InputName(inputs[i])]
       /\ Declared(k).method = "Product.prototype.patchAttributes" =>
            ParameterNames(k) = <<"id", "data">>

\* An instance method whose `res` input is removed and whose shared `id`
\* comes first, next to a static method of which three inputs are removed.
C12_Witness ==
  \E v, l \in DOMAIN added :
    /\ Declared(v).method = "Account.prototype.verify"
    /\ ParameterNames(v) = <<"id", "token", "tokenId", "redirect">>
    /\ Declared(l).method = "Account.login"
    /\ ParameterNames(l) = <<"credentials", "include", "optionsData">>

(***************************************************************************)
(* C13: a parameter of an input of type file is a formData parameter of    *)
(* type file, whatever the input's http.source, the path and the verb.     *)
(***************************************************************************)
C13_FileParameter ==
  \A k \in DOMAIN added :
    LET inputs == DocumentedInputs(k)
    IN \A i \in DOMAIN inputs :
         (i \in DOMAIN heap[k].parameters /\ inputs[i].type = Name("file")) =>
           /\ heap[k].parameters[i].in = "formData"
           /\ heap[k].parameters[i].type = "file"

(***************************************************************************)
(* C14: the translation of a route never fails, and a route that declares  *)
(* no outputs and no status has the success response 204 without a         *)
(* schema.  (The only translation that can fail is that of a route         *)
(* without outputs, in convertReturnsToSwagger.)                           *)
(***************************************************************************)
C14_NoOutputNoContent ==
  /\ pc # "failed"
  /\ \A k \in DOMAIN added :
       (Len(Declared(k).returns) = 0 /\ Declared(k).status = 0) =>
         /\ 204 \in DOMAIN heap[k].responses
         /\ heap[k].responses[204] = Response("Request was successful", Undefined)

(***************************************************************************)
(* C15: with exactly one output marked root the response schema is that    *)
(* output translated directly, whatever else the route declares; with      *)
(* outputs otherwise it is an object whose properties are the outputs not  *)
(* targeted at header or status, `required` listing those marked required  *)
(* (a lone stream output gives the file schema).                           *)
(***************************************************************************)
Translated(k) == routes[added[k]]

RootOutputs(route) == {i \in DOMAIN route.returns : route.returns[i].root}

BodyOutputs(route) == SelectSeq(route.returns, NotHeaderOrStatus)

C15_Direct(ret) ==
  IF ret.model # ""
  THEN Ref("#/definitions/" \o ret.model)
  ELSE BuildType(ret.type, {}, Known).schema

C15_IsStream(route) ==
  /\ Len(BodyOutputs(route)) = 1
  /\ BodyOutputs(route)[1].type = Name("ReadableStream")

C15_IsObjectOf(schema, outputs) ==
  /\ schema.kind = "object"
  /\ DOMAIN schema.properties = {PropName(outputs[i]) : i \in DOMAIN outputs}
  /\ Range(schema.required)
       = {PropName(outputs[i]) : i \in {j \in DOMAIN outputs : outputs[j].required}}

C15_Schema(route, schema) ==
  IF Cardinality(RootOutputs(route)) = 1
  THEN schema = C15_Direct(route.returns[CHOOSE i \in RootOutputs(route) : TRUE])
  ELSE IF C15_IsStream(route)
  THEN schema = FileSchema
  ELSE C15_IsObjectOf(schema, BodyOutputs(route))

C15_ResponseSchema ==
  \A k \in DOMAIN added :
    Len(Translated(k).returns) > 0 =>
      \E code \in DOMAIN heap[k].responses :
        /\ heap[k].responses[code].description = "Request was successful"
        /\ C15_Schema(Translated(k), heap[k].responses[code].schema)

(***************************************************************************)
(* C16: the responses of an operation hold the success entry under the     *)
(* route's http.status, or else under 200 with outputs and 204 without,    *)
(* and an entry under the code of every declared error; the errors leave   *)
(* the success entry in place.                                             *)
(***************************************************************************)
C16_Status(route) ==
  IF route.status # 0 THEN route.status
  ELSE IF Len(route.returns) > 0 THEN 200 ELSE 204

C16_ResponsesMap ==
  \A k \in DOMAIN added :
    /\ C16_Status(Translated(k)) \in DOMAIN heap[k].responses
    /\ heap[k].responses[C16_Status(Translated(k))].description = "Request was successful"
    /\ \A i \in DOMAIN Translated(k).errors :
         Translated(k).errors[i].code \in DOMAIN heap[k].responses

(***************************************************************************)
(* C17: an operation requires the bearer credential exactly when the       *)
(* access rules are not empty and none of them allows $everyone the        *)
(* method of the route, named by the last segment of its dotted name.      *)
(***************************************************************************)
C17_Rules(k) == App(app).acls[Declared(k).cls]

C17_Granted(k) ==
  \E i \in DOMAIN C17_Rules(k) :
    C17_Rules(k)[i] = Acl("ALLOW", "$everyone", MethodName(Declared(k).method))

C17_SecurityRequirement ==
  \A k \in DOMAIN added :
    heap[k].security = (IF C17_Rules(k) # <<>> /\ ~C17_Granted(k)
                        THEN <<"bearer">> ELSE <<>>)

\* Of one model with access rules, an operation left open by a rule that
\* allows $everyone its method (among rules that deny it) next to one that
\* requires the credential.
C17_Witness ==
  \E l, v \in DOMAIN added :
    /\ Declared(l).method = "Account.login"
    /\ heap[l].security = <<>>
    /\ Declared(v).method = "Account.prototype.verify"
    /\ heap[v].security = <<"bearer">>

(***************************************************************************)
(* C18: a route 'Model.prototype.name' or 'Model.name' has the candidate   *)
(* id 'Model_name'; its operation is stored under the path with every      *)
(* ':x' segment written '{x}' and under the lowercase verb, 'all' being    *)
(* 'post' and 'del' 'delete'; the id chosen for it (the candidate when the *)
(* registry does not hold it) is recorded in the registry against the      *)
(* entry produced.                                                         *)
(***************************************************************************)
C18_Candidate(method) ==
  LET parts == Split(method, ".")
  IN IF Len(parts) = 3 /\ parts[2] = "prototype"
     THEN parts[1] \o "_" \o parts[3]
     ELSE parts[1] \o "_" \o parts[2]

RECURSIVE C18_Braces(_, _, _)
C18_Braces(path, i, open) ==
  IF i > Len(path) THEN (IF open THEN "}" ELSE "")
  ELSE IF CharAt(path, i) = ":" /\ (i = 1 \/ CharAt(path, i - 1) = "/")
  THEN "{" \o C18_Braces(path, i + 1, TRUE)
  ELSE IF CharAt(path, i) = "/" /\ open
  THEN "}/" \o C18_Braces(path, i + 1, FALSE)
  ELSE CharAt(path, i) \o C18_Braces(path, i + 1, open)

C18_Verb(verb) ==
  CASE ToLowerCase(verb) = "all" -> "post"
    [] ToLowerCase(verb) = "del" -> "delete"
    [] OTHER -> ToLowerCase(verb)

C19_KeepsPrototype ==
  \A k \in DOMAIN added :
    (/\ Len(Split(Declared(k).method, ".")) = 3
     /\ \A j \in DOMAIN added : j # k => Candidate(j) # Candidate(k)) =>
      /\ heap[k].operationId = ReplaceFirst(Declared(k).method, ".", "_")
      /\ Declared(k).method = "Product.prototype.patchAttributes" =>
           heap[k].operationId = "Product_prototype.patchAttributes"

(***************************************************************************)
(* C20: when a run ends every key of the operationIdRegistry maps to an    *)
(* entry, never to null, and the id of every operation maps to the entry   *)
(* of that operation, so that no id is recorded for two (path, verb)       *)
(* pairs.                                                                  *)
(***************************************************************************)
C20_RegistryAtEnd ==
  pc = "done" =>
    /\ \A id \in DOMAIN operationIdRegistry : operationIdRegistry[id] # Null
    /\ \A k \in DOMAIN heap :
         /\ heap[k].operationId \in DOMAIN operationIdRegistry
         /\ operationIdRegistry[heap[k].operationId].operation = k

(***************************************************************************)
(* C21: translating a route leaves its descriptor as the application       *)
(* declares it: route.returns and the type of each of its entries.         *)
(***************************************************************************)
C21_RouteUnchanged ==
  \A r \in DOMAIN routes :
    /\ Len(routes[r].returns) = Len(App(app).routes[r].returns)
    /\ \A i \in DOMAIN routes[r].returns :
         routes[r].returns[i].type = App(app).routes[r].returns[i].type

(***************************************************************************)
(* C22: in a synthesized return object the property of an output whose     *)
(* innermost type is neither primitive nor defined is {type: 'object'}     *)
(* inside as many array fragments as the type has array levels, without    *)
(* $ref; the property of any other output is the translation of its type.  *)
(***************************************************************************)
RECURSIVE Depth(_)
Depth(t) == IF IsArray(t) THEN 1 + Depth(t.item) ELSE 0

RECURSIVE Nested(_, _)
Nested(levels, schema) ==
  IF levels = 0 THEN schema ELSE ArrayOf(Nested(levels - 1, schema))

C22_IsUnknown(t) ==
  /\ TypeString(t) \notin PrimitiveTypes
  /\ TypeString(t) \notin Known

C22_ItemSchema(name) ==
  IF name \in PrimitiveTypes THEN PrimitiveSchema(name)
  ELSE Ref("#/definitions/" \o name)

C22_Property(t) ==
  IF C22_IsUnknown(t) THEN Nested(Depth(t), GenericObject)
  ELSE Nested(Depth(t), C22_ItemSchema(TypeString(t)))

C22_IsSynthesized(route) ==
  /\ Len(route.returns) > 0
  /\ ~(Len(BodyOutputs(route)) = 1 /\ BodyOutputs(route)[1].root)
  /\ ~C15_IsStream(route)

C22_SuccessSchema(k) == heap[k].responses[C16_Status(Translated(k))].schema

C22_GenericFallback ==
  \A k \in DOMAIN added :
    C22_IsSynthesized(Translated(k)) =>
      \A i \in DOMAIN BodyOutputs(Translated(k)) :
        LET output == BodyOutputs(Translated(k))[i]
        IN /\ C22_SuccessSchema(k).properties[PropName(output)] = C22_Property(output.type)
           /\ C22_IsUnknown(output.type) =>
                SchemaRefs(C22_SuccessSchema(k).properties[PropName(output)]) = {}

\* An object with an unknown type under two array levels, an unknown type
\* that is no array, an array of a primitive and an array of a model.
C22_Witness ==
  \E k \in DOMAIN added :
    /\ Declared(k).method = "Report.breakdown"
    /\ C22_SuccessSchema(k).properties
         = [cells |-> ArrayOf(ArrayOf(GenericObject)),
            owner |-> GenericObject,
            labels |-> ArrayOf(Prim("string", "")),
            failures |-> ArrayOf(Ref("#/definitions/Failure"))]

\* ---------------------------------------------------------------------------
\* C23: every operation present in paths is the operation of the registry
\* entry stored under its current operationId, with that entry's path and
\* verb being the slot the operation sits in; this includes an operation
\* whose id was renamed when a later route claimed the same id.
C23_Entry(slot) == operationIdRegistry[OpAt(slot).operationId]

C23_RegistryHoldsOperation ==
  \A slot \in Slots :
    /\ OpAt(slot).operationId \in DOMAIN operationIdRegistry
    /\ C23_Entry(slot) # Null
    /\ C23_Entry(slot) = [path |-> slot[1], method |-> slot[2],
                          operation |-> paths[slot[1]][slot[2]]]

\* ---------------------------------------------------------------------------
\* C24: with generateRelationProperties on and a retrieval method (find
\* family or relation getter) whose first output is of a primitive type or
\* 'any', or an array of such a type, the response schema is built from the
\* declared type: the translation leaves the first output's type as
\* declared, without suffix and without a further array level, and a lone
\* root output gives the schema of the declared type.
C24_Passthrough(t) ==
  /\ Depth(t) <= 1
  /\ TypeString(t) \in PrimitiveTypes \cup {"any"}

C24_Applies(k) ==
  /\ opts.generateRelationProperties
  /\ MatchesRetrieval(Declared(k).method)
  /\ Len(Declared(k).returns) > 0
  /\ C24_Passthrough(Declared(k).returns[1].type)

C24_PrimitivePassthrough ==
  \A k \in DOMAIN added :
    C24_Applies(k) =>
      /\ Translated(k).returns[1].type = Declared(k).returns[1].type
      /\ (Len(Declared(k).returns) = 1 /\ Declared(k).returns[1].root) =>
           C22_SuccessSchema(k) = C15_Direct(Declared(k).returns[1])

====
